---- MODULE Spec2Model ----
(***************************************************************************)
(* Model of lavaplayer.player.Player (src/lavaplayer/player.py): the local *)
(* per-guild player state, the calls it hands to the node's REST client    *)
(* and the coroutines that are suspended at an await.                      *)
(*                                                                         *)
(* A step is the code a coroutine runs between two suspension points.      *)
(* Only play() runs code after its await (lines 62-63), so it is the only  *)
(* method with a second step, play_resume, which is also where a failure   *)
(* of the REST call shows.  Every other method ends at its single REST     *)
(* call: whatever the call returns or raises, no code of the player runs   *)
(* after it.                                                               *)
(*                                                                         *)
(* The methods fall in groups that share no field: the queue methods       *)
(* (queue, Track.requester, the tasks) and the settings and voice methods  *)
(* (_volume, _repeat, _queue_repeat, _voice_handlers).  Spec interleaves   *)
(* all of them; SpecQueue and SpecSettings each leave out the methods that *)
(* write the other group's fields and start from the settings, or the      *)
(* queue, the left-out methods can have produced.                          *)
(***************************************************************************)
EXTENDS Integers, Sequences, FiniteSets, TLC

\* ---- bounds of the model ----
MaxQueue == 3
MaxTasks == 2

\* ---- values standing for Python values ----
None == -1
NoError == "none"
AttributeError == "AttributeError"
TypeError == "TypeError"
IndexError == "IndexError"
VolumeError == "VolumeError"
TransportError == "TransportError"

\* ---- the player under test and the inputs drawn for its methods ----
GuildId == 9
BotUserId == 3
NodeSessionId == "n1"
Tracks == {1, 2}
Requesters == {7}
Starts == {0, 5}
Volumes == {-1, 0, 1000, 1001}
UserIds == {BotUserId, 4}
SessionIds == {"s1", "s2"}
ChannelIds == {None, 5, 6}
Tokens == {"t1"}
Endpoints == {<<"wss://", "h">>, <<"h">>}
Positions == (0 - MaxQueue - 1) .. (MaxQueue + 1)
RestOutcomes == {NoError, TransportError}

VARIABLES
    queue,            \* self.queue: list of Track objects (by identity)
    requester,        \* Track.requester of every Track object
    _volume,          \* self._volume
    _repeat,          \* self._repeat
    _queue_repeat,    \* self._queue_repeat
    _shuffle,         \* self._shuffle: <<>> until shuffle() sets the attribute
    _voice_handlers,  \* self._voice_handlers: dict guild id -> ConnectionInfo
    ready,            \* tasks created by loop.create_task, not yet run (FIFO)
    awaiting,         \* play() coroutines suspended in rest.update_player
    sent,             \* calls handed to self.rest by the last step
    last,             \* method run by the last step, what it raised/returned
    played,           \* encodedTrack of the latest play request handed to self.rest
    bot_channel       \* voice channel Discord last reported for the bot's user

vars == <<queue, requester, _volume, _repeat, _queue_repeat, _shuffle,
          _voice_handlers, ready, awaiting, sent, last, played, bot_channel>>

local == <<queue, requester, _volume, _repeat, _queue_repeat, _shuffle,
           _voice_handlers>>

\* ---- Python helpers ----
\* truth value of an Optional[int]: None and 0 are falsy
Falsy(x) == x = None \/ x = 0

\* a or b
PyOr(a, b) == IF Falsy(a) THEN b ELSE a

\* only Track objects have the attributes .track and .requester
IsTrack(x) == x \in Tracks

\* Track.track, the encoded track string of a Track object
EncodedTrack(t) == 10 + t

\* str.replace("wss://", "") on an endpoint given as a sequence of pieces
StripWss(endpoint) == SelectSeq(endpoint, LAMBDA piece : piece # "wss://")

\* ConnectionInfo(guild_id, session_id, channel_id)
ConnectionInfo(guild_id, session_id, channel_id) ==
    [guild_id |-> guild_id, session_id |-> session_id, channel_id |-> channel_id]

\* d[k] = v on a dict
DictSet(d, k, v) == [x \in (DOMAIN d) \cup {k} |-> IF x = k THEN v ELSE d[x]]

EmptyDict == [x \in {} |-> None]

\* ---- calls on the REST client ----
UpdatePlayer(data) ==
    [method |-> "update_player", session_id |-> NodeSessionId,
     guild_id |-> GuildId, data |-> data]

DestroyPlayer ==
    [method |-> "destroy_player", session_id |-> NodeSessionId,
     guild_id |-> GuildId]

\* mutant: the first play uses the player's stored volume
PlayData_stored_volume(track, start) ==
    [encodedTrack |-> EncodedTrack(track), position |-> PyOr(0, start), volume |-> _volume]

PlayData(track, start) ==
    [encodedTrack |-> EncodedTrack(track), position |-> PyOr(0, start), volume |-> 50]

StopData == [encodedTrack |-> None]

VoiceData(session_id, token, endpoint) ==
    [voice |-> [token |-> token, sessionId |-> session_id,
                endpoint |-> StripWss(endpoint)]]

\* a request that makes the node start a track
IsPlayStart(call) ==
    /\ call.method = "update_player"
    /\ "encodedTrack" \in DOMAIN call.data
    /\ call.data.encodedTrack # None

\* the step hands calls (none or one) to self.rest, which takes them in order
Send(calls) ==
    /\ sent' = calls
    /\ played' = IF calls # <<>> /\ IsPlayStart(calls[1])
                 THEN calls[1].data.encodedTrack
                 ELSE played

\* what the last step did: the method, the exception it raised, its result
Did(op, raised) == last' = [op |-> op, raised |-> raised, ret |-> <<>>]

Returned(op, ret) == last' = [op |-> op, raised |-> NoError, ret |-> ret]

Init ==
    /\ queue = <<>>
    /\ requester = [t \in Tracks |-> None]
    /\ _volume = 100
    /\ _repeat = FALSE
    /\ _queue_repeat = FALSE
    /\ _shuffle = <<>>
    /\ _voice_handlers = EmptyDict
    /\ ready = <<>>
    /\ awaiting = <<>>
    /\ sent = <<>>
    /\ last = [op |-> "__init__", raised |-> NoError, ret |-> <<>>]
    /\ played = None
    /\ bot_channel = None

\* ---- list helpers ----
\* list.pop(p) / list[p] accept -n <= p < n
InRange(q, p) == (0 - Len(q)) <= p /\ p < Len(q)

\* the 1-based place of Python index p
Place(q, p) == IF p >= 0 THEN p + 1 ELSE Len(q) + p + 1

RemoveAt(q, i) == SubSeq(q, 1, i - 1) \o SubSeq(q, i + 1, Len(q))

\* the results random.sample(q, len(q)) can give
Samples(q) == {[i \in 1..Len(q) |-> q[p[i]]] : p \in Permutations(1..Len(q))}

\* ---- add_to_queue, lines 26-39 ----
\* self.play(self.guild_id, track, requester) binds the arguments by
\* position: track=guild_id, requester=track, start=requester
PlayCall(a, b, c) == [track |-> a, requester |-> b, start |-> c]

\* one task per given track: the call it makes, and the track it was made for
TasksFor(tracks, req) ==
    [i \in 1..Len(tracks) |->
        [given |-> tracks[i], call |-> PlayCall(GuildId, tracks[i], req)]]

add_to_queue(tracks, req) ==
    /\ Len(ready) + Len(awaiting) + Len(tracks) <= MaxTasks
    /\ ready' = ready \o TasksFor(tracks, req)
    /\ Send(<<>>)
    /\ Did("add_to_queue", NoError)
    /\ UNCHANGED <<local, awaiting, bot_channel>>

\* ---- play, lines 41-63 ----
\* mutant: a play on a non-empty queue puts the track at the head
play_body_prepends(op, track, req, start) ==
    IF ~IsTrack(track)
    THEN /\ Send(<<>>)
         /\ Did(op, AttributeError)
         /\ UNCHANGED <<local, awaiting>>
    ELSE IF Len(queue) = 0
    THEN /\ Len(awaiting) < MaxQueue
         /\ Send(<<UpdatePlayer(PlayData(track, start))>>)
         /\ awaiting' = Append(awaiting, [track |-> track, requester |-> req])
         /\ Did(op, NoError)
         /\ UNCHANGED local
    ELSE /\ Len(queue) + Len(awaiting) < MaxQueue
         /\ requester' = [requester EXCEPT ![track] = req]
         /\ queue' = <<track>> \o queue
         /\ Send(<<>>)
         /\ Did(op, NoError)
         /\ UNCHANGED <<_volume, _repeat, _queue_repeat, _shuffle,
                        _voice_handlers, awaiting>>

\* the code of play() up to its await (queue empty) or to its end
play_body(op, track, req, start) ==
    IF ~IsTrack(track)
    THEN \* track.track (line 57) or track.requester = ... (line 62) fails
         /\ Send(<<>>)
         /\ Did(op, AttributeError)
         /\ UNCHANGED <<local, awaiting>>
    ELSE IF Len(queue) = 0
    THEN /\ Len(awaiting) < MaxQueue
         /\ Send(<<UpdatePlayer(PlayData(track, start))>>)
         /\ awaiting' = Append(awaiting, [track |-> track, requester |-> req])
         /\ Did(op, NoError)
         /\ UNCHANGED local
    ELSE /\ Len(queue) + Len(awaiting) < MaxQueue
         /\ requester' = [requester EXCEPT ![track] = req]
         /\ queue' = Append(queue, track)
         /\ Send(<<>>)
         /\ Did(op, NoError)
         /\ UNCHANGED <<_volume, _repeat, _queue_repeat, _shuffle,
                        _voice_handlers, awaiting>>

play(track, req, start) ==
    /\ Len(queue) = 0 => Len(ready) + Len(awaiting) < MaxTasks
    /\ play_body("play", track, req, start)
    /\ UNCHANGED <<ready, bot_channel>>

\* a task created by add_to_queue gets to run
run_task ==
    /\ ready # <<>>
    /\ ready' = Tail(ready)
    /\ play_body("task", Head(ready).call.track, Head(ready).call.requester,
                 Head(ready).call.start)
    /\ UNCHANGED bot_channel

\* mutant: the track is queued although the REST call failed
play_resume_ignores_error(i, outcome) ==
    /\ i \in 1..Len(awaiting)
    /\ awaiting' = RemoveAt(awaiting, i)
    /\ Send(<<>>)
    /\ Did("play_resume", outcome)
    /\ requester' = [requester EXCEPT ![awaiting[i].track] = awaiting[i].requester]
    /\ queue' = Append(queue, awaiting[i].track)
    /\ UNCHANGED <<_volume, _repeat, _queue_repeat, _shuffle, _voice_handlers>>
    /\ UNCHANGED <<ready, bot_channel>>

\* rest.update_player returns or raises in the i-th suspended play()
play_resume(i, outcome) ==
    /\ i \in 1..Len(awaiting)
    /\ awaiting' = RemoveAt(awaiting, i)
    /\ Send(<<>>)
    /\ Did("play_resume", outcome)
    /\ IF outcome = NoError
       THEN /\ requester' = [requester EXCEPT ![awaiting[i].track] = awaiting[i].requester]
            /\ queue' = Append(queue, awaiting[i].track)
            /\ UNCHANGED <<_volume, _repeat, _queue_repeat, _shuffle, _voice_handlers>>
       ELSE UNCHANGED local
    /\ UNCHANGED <<ready, bot_channel>>

\* ---- repeat, lines 65-74; queue_repeat, lines 76-86 ----
\* mutant: repeat clears the queue-repeat flag, as queue_repeat clears _repeat
repeat_clears_queue_repeat(stats) ==
    /\ _repeat' = stats
    /\ _queue_repeat' = FALSE
    /\ Send(<<>>)
    /\ Did("repeat", NoError)
    /\ UNCHANGED <<queue, requester, _volume, _shuffle,
                   _voice_handlers, ready, awaiting, bot_channel>>

repeat(stats) ==
    /\ _repeat' = stats
    /\ Send(<<>>)
    /\ Did("repeat", NoError)
    /\ UNCHANGED <<queue, requester, _volume, _queue_repeat, _shuffle,
                   _voice_handlers, ready, awaiting, bot_channel>>

queue_repeat(stats) ==
    /\ _queue_repeat' = stats
    /\ _repeat' = FALSE
    /\ Send(<<>>)
    /\ Did("queue_repeat", NoError)
    /\ UNCHANGED <<queue, requester, _volume, _shuffle, _voice_handlers,
                   ready, awaiting, bot_channel>>

\* ---- filters, lines 88-106 ----
filters ==
    /\ Send(<<UpdatePlayer([filters |-> [guildId |-> GuildId]])>>)
    /\ Did("filters", NoError)
    /\ UNCHANGED <<local, ready, awaiting, bot_channel>>

\* ---- stop, lines 108-121 ----
\* mutant: stop tears the player down instead of stopping the track
stop_destroys ==
    IF Len(queue) = 0
    THEN /\ Send(<<>>)
         /\ Did("stop", NoError)
         /\ UNCHANGED <<local, ready, awaiting, bot_channel>>
    ELSE /\ queue' = <<>>
         /\ Send(<<DestroyPlayer>>)
         /\ Did("stop", NoError)
         /\ UNCHANGED <<requester, _volume, _repeat, _queue_repeat, _shuffle,
                        _voice_handlers, ready, awaiting, bot_channel>>

stop ==
    IF Len(queue) = 0
    THEN /\ Send(<<>>)
         /\ Did("stop", NoError)
         /\ UNCHANGED <<local, ready, awaiting, bot_channel>>
    ELSE /\ queue' = <<>>
         /\ Send(<<UpdatePlayer(StopData)>>)
         /\ Did("stop", NoError)
         /\ UNCHANGED <<requester, _volume, _repeat, _queue_repeat, _shuffle,
                        _voice_handlers, ready, awaiting, bot_channel>>

\* ---- skip, lines 123-135 ----
\* mutant: skip drops the head of the queue
skip_pops_head ==
    IF Len(queue) = 0
    THEN /\ Send(<<>>)
         /\ Did("skip", NoError)
         /\ UNCHANGED <<local, ready, awaiting, bot_channel>>
    ELSE /\ queue' = Tail(queue)
         /\ Send(<<UpdatePlayer(StopData)>>)
         /\ Did("skip", NoError)
         /\ UNCHANGED <<requester, _volume, _repeat, _queue_repeat, _shuffle,
                        _voice_handlers, ready, awaiting, bot_channel>>

skip ==
    IF Len(queue) = 0
    THEN /\ Send(<<>>)
         /\ Did("skip", NoError)
         /\ UNCHANGED <<local, ready, awaiting, bot_channel>>
    ELSE /\ Send(<<UpdatePlayer(StopData)>>)
         /\ Did("skip", NoError)
         /\ UNCHANGED <<local, ready, awaiting, bot_channel>>

\* ---- pause, lines 137-152; seek, lines 154-169 ----
pause(stats) ==
    /\ Send(<<UpdatePlayer([paused |-> stats])>>)
    /\ Did("pause", NoError)
    /\ UNCHANGED <<local, ready, awaiting, bot_channel>>

seek(position) ==
    /\ Send(<<UpdatePlayer([position |-> position])>>)
    /\ Did("seek", NoError)
    /\ UNCHANGED <<local, ready, awaiting, bot_channel>>

\* ---- volume, lines 171-194 ----
\* mutant: the upper limit is off by one
volume_off_by_one(v) ==
    IF v < 0 \/ v > 1001
    THEN /\ Send(<<>>)
         /\ last' = [op |-> "volume", raised |-> VolumeError, ret |-> <<GuildId>>]
         /\ UNCHANGED <<local, ready, awaiting, bot_channel>>
    ELSE /\ _volume' = v
         /\ Send(<<UpdatePlayer([volume |-> v])>>)
         /\ Did("volume", NoError)
         /\ UNCHANGED <<queue, requester, _repeat, _queue_repeat, _shuffle,
                        _voice_handlers, ready, awaiting, bot_channel>>

volume(v) ==
    IF v < 0 \/ v > 1000
    THEN /\ Send(<<>>)
         /\ last' = [op |-> "volume", raised |-> VolumeError, ret |-> <<GuildId>>]
         /\ UNCHANGED <<local, ready, awaiting, bot_channel>>
    ELSE /\ _volume' = v
         /\ Send(<<UpdatePlayer([volume |-> v])>>)
         /\ Did("volume", NoError)
         /\ UNCHANGED <<queue, requester, _repeat, _queue_repeat, _shuffle,
                        _voice_handlers, ready, awaiting, bot_channel>>

\* ---- destroy, lines 196-210 ----
\* args are the positional arguments of the call besides self; the method
\* takes none, so a call that passes any fails before the body runs
destroy_call(op, args) ==
    IF Len(args) # 0
    THEN /\ Send(<<>>)
         /\ Did(op, TypeError)
    ELSE /\ Send(<<DestroyPlayer>>)
         /\ Did(op, NoError)

\* mutant: destroy also clears the local queue
destroy_clears_queue ==
    /\ destroy_call("destroy", <<>>)
    /\ queue' = <<>>
    /\ UNCHANGED <<requester, _volume, _repeat, _queue_repeat, _shuffle,
                   _voice_handlers, ready, awaiting, bot_channel>>

destroy ==
    /\ destroy_call("destroy", <<>>)
    /\ UNCHANGED <<local, ready, awaiting, bot_channel>>

\* ---- shuffle, lines 212-226 ----
\* mutant: the whole queue is permuted, the now-playing entry included
shuffle_whole_queue(state) ==
    IF Len(queue) = 0
    THEN /\ Send(<<>>)
         /\ Returned("shuffle", <<>>)
         /\ UNCHANGED <<local, ready, awaiting, bot_channel>>
    ELSE /\ _shuffle' = <<state>>
         /\ queue' \in Samples(queue)
         /\ Send(<<>>)
         /\ Returned("shuffle", queue')
         /\ UNCHANGED <<requester, _volume, _repeat, _queue_repeat,
                        _voice_handlers, ready, awaiting, bot_channel>>

shuffle(state) ==
    IF Len(queue) = 0
    THEN /\ Send(<<>>)
         /\ Returned("shuffle", <<>>)
         /\ UNCHANGED <<local, ready, awaiting, bot_channel>>
    ELSE /\ _shuffle' = <<state>>
         /\ \E rest \in Samples(Tail(queue)) : queue' = <<Head(queue)>> \o rest
         /\ Send(<<>>)
         /\ Returned("shuffle", queue')
         /\ UNCHANGED <<requester, _volume, _repeat, _queue_repeat,
                        _voice_handlers, ready, awaiting, bot_channel>>

\* ---- remove, lines 228-239 ----
\* mutant: positions below 0 are refused
remove_rejects_negative(position) ==
    IF Len(queue) = 0
    THEN /\ Send(<<>>)
         /\ Returned("remove", <<>>)
         /\ UNCHANGED <<local, ready, awaiting, bot_channel>>
    ELSE IF position < 0 \/ position >= Len(queue)
    THEN /\ Send(<<>>)
         /\ Did("remove", IndexError)
         /\ UNCHANGED <<local, ready, awaiting, bot_channel>>
    ELSE /\ queue' = RemoveAt(queue, position + 1)
         /\ Send(<<>>)
         /\ Returned("remove", <<None>>)
         /\ UNCHANGED <<requester, _volume, _repeat, _queue_repeat, _shuffle,
                        _voice_handlers, ready, awaiting, bot_channel>>

remove(position) ==
    IF Len(queue) = 0
    THEN /\ Send(<<>>)
         /\ Returned("remove", <<>>)
         /\ UNCHANGED <<local, ready, awaiting, bot_channel>>
    ELSE IF ~InRange(queue, position)
    THEN /\ Send(<<>>)
         /\ Did("remove", IndexError)
         /\ UNCHANGED <<local, ready, awaiting, bot_channel>>
    ELSE /\ queue' = RemoveAt(queue, Place(queue, position))
         /\ Send(<<>>)
         /\ Returned("remove", <<None>>)
         /\ UNCHANGED <<requester, _volume, _repeat, _queue_repeat, _shuffle,
                        _voice_handlers, ready, awaiting, bot_channel>>

\* ---- index, lines 241-254 ----
index(position) ==
    /\ Send(<<>>)
    /\ IF Len(queue) = 0 THEN Returned("index", <<None>>)
       ELSE IF position > Len(queue) THEN Returned("index", <<None>>)
       ELSE IF ~InRange(queue, position) THEN Did("index", IndexError)
       ELSE Returned("index", <<queue[Place(queue, position)]>>)
    /\ UNCHANGED <<local, ready, awaiting, bot_channel>>

\* ---- voice_update, lines 256-284 ----
voice_update_call(op, session_id, token, endpoint, channel_id) ==
    IF Falsy(channel_id)
    THEN destroy_call(op, <<GuildId>>)
    ELSE /\ Send(<<UpdatePlayer(VoiceData(session_id, token, endpoint))>>)
         /\ Did(op, NoError)

voice_update(session_id, token, endpoint, channel_id) ==
    /\ voice_update_call("voice_update", session_id, token, endpoint, channel_id)
    /\ UNCHANGED <<local, ready, awaiting, bot_channel>>

\* ---- raw_voice_state_update, lines 286-304 ----
\* Discord reports the voice channel of a user; bot_channel follows the
\* reports about the bot's own user, whatever the handler makes of them
Reported(user_id, channel_id) ==
    bot_channel' = IF user_id = BotUserId THEN channel_id ELSE bot_channel

\* mutant: an entry already stored keeps its channel id
raw_voice_state_update_merges(user_id, session_id, channel_id) ==
    /\ Reported(user_id, channel_id)
    /\ IF user_id # BotUserId
       THEN /\ Send(<<>>)
            /\ Did("raw_voice_state_update", NoError)
            /\ UNCHANGED <<local, ready, awaiting>>
       ELSE IF Falsy(channel_id)
       THEN /\ destroy_call("raw_voice_state_update", <<GuildId>>)
            /\ UNCHANGED <<local, ready, awaiting>>
       ELSE /\ _voice_handlers' =
                   DictSet(_voice_handlers, GuildId,
                           ConnectionInfo(GuildId, session_id,
                                          IF GuildId \in DOMAIN _voice_handlers
                                          THEN _voice_handlers[GuildId].channel_id
                                          ELSE channel_id))
            /\ Send(<<>>)
            /\ Did("raw_voice_state_update", NoError)
            /\ UNCHANGED <<queue, requester, _volume, _repeat, _queue_repeat,
                           _shuffle, ready, awaiting>>

\* mutant: the update is taken whoever the user is
raw_voice_state_update_any_user(user_id, session_id, channel_id) ==
    /\ Reported(user_id, channel_id)
    /\ IF Falsy(channel_id)
       THEN /\ destroy_call("raw_voice_state_update", <<GuildId>>)
            /\ UNCHANGED <<local, ready, awaiting>>
       ELSE /\ _voice_handlers' =
                   DictSet(_voice_handlers, GuildId,
                           ConnectionInfo(GuildId, session_id, channel_id))
            /\ Send(<<>>)
            /\ Did("raw_voice_state_update", NoError)
            /\ UNCHANGED <<queue, requester, _volume, _repeat, _queue_repeat,
                           _shuffle, ready, awaiting>>

raw_voice_state_update(user_id, session_id, channel_id) ==
    /\ Reported(user_id, channel_id)
    /\ IF user_id # BotUserId
       THEN /\ Send(<<>>)
            /\ Did("raw_voice_state_update", NoError)
            /\ UNCHANGED <<local, ready, awaiting>>
       ELSE IF Falsy(channel_id)
       THEN /\ destroy_call("raw_voice_state_update", <<GuildId>>)
            /\ UNCHANGED <<local, ready, awaiting>>
       ELSE /\ _voice_handlers' =
                   DictSet(_voice_handlers, GuildId,
                           ConnectionInfo(GuildId, session_id, channel_id))
            /\ Send(<<>>)
            /\ Did("raw_voice_state_update", NoError)
            /\ UNCHANGED <<queue, requester, _volume, _repeat, _queue_repeat,
                           _shuffle, ready, awaiting>>

\* ---- raw_voice_server_update, lines 306-320 ----
\* mutant: the voice update is sent whether or not a ConnectionInfo is stored
raw_voice_server_update_unchecked(endpoint, token) ==
    /\ voice_update_call("raw_voice_server_update", NodeSessionId, token, endpoint,
                         IF GuildId \in DOMAIN _voice_handlers
                         THEN _voice_handlers[GuildId].channel_id ELSE 5)
    /\ UNCHANGED <<local, ready, awaiting, bot_channel>>

raw_voice_server_update(endpoint, token) ==
    IF GuildId \notin DOMAIN _voice_handlers
    THEN /\ Send(<<>>)
         /\ Did("raw_voice_server_update", NoError)
         /\ UNCHANGED <<local, ready, awaiting, bot_channel>>
    ELSE /\ voice_update_call("raw_voice_server_update", NodeSessionId, token,
                              endpoint, _voice_handlers[GuildId].channel_id)
         /\ UNCHANGED <<local, ready, awaiting, bot_channel>>

\* ---- wait_for_connection, wait_for_remove_connection, lines 322-342 ----
wait_for_connection ==
    /\ Send(<<>>)
    /\ Did("wait_for_connection", NoError)
    /\ UNCHANGED <<local, ready, awaiting, bot_channel>>

wait_for_remove_connection ==
    /\ Send(<<>>)
    /\ Did("wait_for_remove_connection", NoError)
    /\ UNCHANGED <<local, ready, awaiting, bot_channel>>

\* the track lists handed to add_to_queue
TrackLists == UNION {[1..n -> Tracks] : n \in 1..MaxTasks}

\* methods that write the queue, Track.requester, _shuffle or the tasks
QueueWriters ==
    \/ \E tracks \in TrackLists, req \in Requesters : add_to_queue(tracks, req)
    \/ \E track \in Tracks, req \in Requesters, start \in Starts : play(track, req, start)
    \/ run_task
    \/ \E i \in 1..MaxTasks, outcome \in RestOutcomes : play_resume(i, outcome)
    \/ stop
    \/ \E state \in BOOLEAN : shuffle(state)
    \/ \E position \in Positions : remove(position)

\* methods that write _volume, _repeat, _queue_repeat or _voice_handlers
SettingsWriters ==
    \/ \E stats \in BOOLEAN : repeat(stats)
    \/ \E stats \in BOOLEAN : queue_repeat(stats)
    \/ \E v \in Volumes : volume(v)
    \/ \E user_id \in UserIds, session_id \in SessionIds, channel_id \in ChannelIds :
            raw_voice_state_update(user_id, session_id, channel_id)

\* methods that write no field of the player
Readers ==
    \/ filters
    \/ skip
    \/ \E stats \in BOOLEAN : pause(stats)
    \/ \E position \in Starts : seek(position)
    \/ destroy
    \/ \E position \in Positions : index(position)
    \/ \E session_id \in SessionIds, token \in Tokens, endpoint \in Endpoints,
          channel_id \in ChannelIds :
            voice_update(session_id, token, endpoint, channel_id)
    \/ \E endpoint \in Endpoints, token \in Tokens :
            raw_voice_server_update(endpoint, token)
    \/ wait_for_connection
    \/ wait_for_remove_connection

Next == QueueWriters \/ SettingsWriters \/ Readers

Spec == Init /\ [][Next]_vars

\* ---- the queue methods, from any settings ----
\* settings the player can have: after __init__, and after
\* queue_repeat(True), repeat(True), volume(1000) and a voice-state update
InitQueue ==
    /\ queue = <<>>
    /\ requester = [t \in Tracks |-> None]
    /\ _shuffle = <<>>
    /\ ready = <<>>
    /\ awaiting = <<>>
    /\ sent = <<>>
    /\ last = [op |-> "__init__", raised |-> NoError, ret |-> <<>>]
    /\ played = None
    /\ \/ /\ _volume = 100
          /\ _repeat = FALSE
          /\ _queue_repeat = FALSE
          /\ _voice_handlers = EmptyDict
          /\ bot_channel = None
       \/ /\ _volume = 1000
          /\ _repeat = TRUE
          /\ _queue_repeat = TRUE
          /\ _voice_handlers = DictSet(EmptyDict, GuildId, ConnectionInfo(GuildId, "s1", 5))
          /\ bot_channel = 5

NextQueue == QueueWriters \/ Readers

SpecQueue == InitQueue /\ [][NextQueue]_vars

\* ---- the settings and voice methods, from any queue ----
\* queues the player can have: after __init__, and after play(1), play(2)
InitSettings ==
    /\ requester = [t \in Tracks |-> None]
    /\ _volume = 100
    /\ _repeat = FALSE
    /\ _queue_repeat = FALSE
    /\ _shuffle = <<>>
    /\ _voice_handlers = EmptyDict
    /\ ready = <<>>
    /\ awaiting = <<>>
    /\ sent = <<>>
    /\ last = [op |-> "__init__", raised |-> NoError, ret |-> <<>>]
    /\ bot_channel = None
    /\ \/ queue = <<>> /\ played = None
       \/ queue = <<1, 2>> /\ played = EncodedTrack(1)

NextSettings == SettingsWriters \/ Readers

SpecSettings == InitSettings /\ [][NextSettings]_vars

\* ---- direct play calls only, overlapping at their await ----
NextPlay ==
    \/ \E track \in Tracks, req \in Requesters, start \in Starts : play(track, req, start)
    \/ \E i \in 1..MaxTasks, outcome \in RestOutcomes : play_resume(i, outcome)

SpecPlay == InitQueue /\ [][NextPlay]_vars

\* ---- direct play calls only, against a remote whose calls all succeed ----
NextPlayReliable ==
    \/ \E track \in Tracks, req \in Requesters, start \in Starts : play(track, req, start)
    \/ \E i \in 1..MaxTasks : play_resume(i, NoError)

SpecPlayReliable == InitQueue /\ [][NextPlayReliable]_vars

\* ======================= properties =======================

PresentChannels == ChannelIds \ {None}

OtherUsers == UserIds \ {BotUserId}

StoredSettings == <<_volume, _repeat, _queue_repeat, _voice_handlers>>

\* the step was taken by the method op
Ran(op) == last'.op = op

\* C1: the track-repeat flag and the queue-repeat flag are never both true,
\* whatever repeat/queue_repeat calls and other operations have run.
C1_RepeatFlagsExclusive == ~(_repeat /\ _queue_repeat)

\* C2: volume(v) passes iff 0 <= v <= 1000.  Out of range it raises
\* VolumeError carrying the guild id, hands nothing to the REST client and
\* keeps the stored volume; in range it stores v and hands over exactly one
\* update carrying volume v.  The stored volume is always in 0..1000.
C2_VolumeValidated ==
    [][/\ _volume \in 0..1000
       /\ _volume' \in 0..1000
       /\ \A v \in Volumes : volume(v) =>
            IF 0 <= v /\ v <= 1000
            THEN /\ last'.raised = NoError
                 /\ _volume' = v
                 /\ sent' = <<UpdatePlayer([volume |-> v])>>
            ELSE /\ last'.raised = VolumeError
                 /\ last'.ret = <<GuildId>>
                 /\ sent' = <<>>
                 /\ _volume' = _volume]_vars

\* a call was rejected after an accepted one had changed the stored volume
C2_Witness ==
    /\ last.op = "volume"
    /\ last.raised = VolumeError
    /\ sent = <<>>
    /\ _volume = 1000

\* C3: play(track, requester, start) on an empty queue with nothing else in
\* flight hands over exactly one update with encodedTrack = track.track,
\* position = start and volume = 50 whatever the stored volume is; when its
\* REST call has returned the queue is [track] and track.requester is the
\* requester.
C3_PlayOnEmptyQueue ==
    [][/\ \A track \in Tracks, req \in Requesters, start \in Starts :
            (Ran("play") /\ play(track, req, start) /\ Len(queue) = 0
                /\ awaiting = <<>> /\ ready = <<>>) =>
                /\ sent' = <<UpdatePlayer([encodedTrack |-> EncodedTrack(track),
                                          position |-> start, volume |-> 50])>>
                /\ awaiting' = <<[track |-> track, requester |-> req]>>
                /\ queue' = <<>>
       /\ (Ran("play_resume") /\ play_resume(1, NoError) /\ Len(awaiting) = 1 /\ Len(queue) = 0
                /\ ready = <<>>) =>
                /\ sent' = <<>>
                /\ queue' = <<awaiting[1].track>>
                /\ requester'[awaiting[1].track] = awaiting[1].requester
                /\ awaiting' = <<>>]_vars

\* the only play in flight has completed on a player whose stored volume is
\* not 50
C3_Witness ==
    /\ last.op = "play_resume"
    /\ last.raised = NoError
    /\ Len(queue) = 1
    /\ requester[queue[1]] = 7
    /\ awaiting = <<>>
    /\ ready = <<>>
    /\ _volume = 1000

\* C4: play(track) that starts on a non-empty queue hands nothing to the REST
\* client and appends track at the tail, the entries already queued keeping
\* their places, also while other plays are suspended at their await.
C4_PlayOnNonEmptyQueue ==
    [][\A track \in Tracks, req \in Requesters, start \in Starts :
            (Ran("play") /\ play(track, req, start) /\ Len(queue) > 0) =>
                /\ sent' = <<>>
                /\ queue' = Append(queue, track)
                /\ awaiting' = awaiting]_vars

\* a play appended to a non-empty queue while another play was suspended
C4_Witness ==
    /\ last.op = "play"
    /\ sent = <<>>
    /\ Len(queue) = 2
    /\ queue[1] # queue[2]
    /\ Len(awaiting) = 1

\* C5: the task add_to_queue created for a given track puts that track in the
\* queue, and starts it remotely when the queue was empty (stated for each
\* of the tasks as it runs: once all have run, every given track is queued).
C5_EnqueueAddsTracks ==
    [][run_task =>
            IF Len(queue) = 0
            THEN /\ Len(sent') = 1
                 /\ sent'[1].method = "update_player"
                 /\ sent'[1].data.encodedTrack = EncodedTrack(Head(ready).given)
            ELSE queue' = Append(queue, Head(ready).given)]_vars

\* C6: stop() on an empty queue hands nothing to the REST client and changes
\* nothing; on a non-empty queue it empties the queue and hands over exactly
\* one update with encodedTrack = null, no destroy_player, and keeps the
\* volume, the repeat flags and the stored ConnectionInfo.
C6_Stop ==
    [][stop =>
            IF Len(queue) = 0
            THEN sent' = <<>> /\ UNCHANGED <<local, ready, awaiting>>
            ELSE /\ queue' = <<>>
                 /\ sent' = <<UpdatePlayer([encodedTrack |-> None])>>
                 /\ UNCHANGED StoredSettings]_vars

\* stop has emptied a queue on a player with non-default settings
C6_Witness ==
    /\ last.op = "stop"
    /\ sent = <<UpdatePlayer([encodedTrack |-> None])>>
    /\ queue = <<>>
    /\ _volume = 1000
    /\ _repeat
    /\ GuildId \in DOMAIN _voice_handlers

\* C7: skip() never changes the queue; on an empty queue it hands nothing to
\* the REST client, on a non-empty queue exactly one update with
\* encodedTrack = null.
C7_SkipKeepsQueue ==
    [][skip =>
            /\ queue' = queue
            /\ IF Len(queue) = 0
               THEN sent' = <<>>
               ELSE sent' = <<UpdatePlayer([encodedTrack |-> None])>>]_vars

\* skip has run on a queue of two tracks, which are still there
C7_Witness ==
    /\ last.op = "skip"
    /\ sent = <<UpdatePlayer([encodedTrack |-> None])>>
    /\ Len(queue) = 2

\* C8: a disconnect signal (a voice-state update for the bot's own user with
\* no channel id, or voice_update with no channel id) hands a destroy_player
\* for this guild and node session to the REST client, no voice update, and
\* records no ConnectionInfo.
C8_DisconnectDestroys ==
    [][/\ \A session_id \in SessionIds :
            raw_voice_state_update(BotUserId, session_id, None) =>
                /\ sent' = <<DestroyPlayer>>
                /\ _voice_handlers' = _voice_handlers
       /\ \A session_id \in SessionIds, token \in Tokens, endpoint \in Endpoints :
            voice_update(session_id, token, endpoint, None) =>
                /\ sent' = <<DestroyPlayer>>
                /\ _voice_handlers' = _voice_handlers]_vars

\* C9: a voice-state update for another user changes no player state and
\* hands nothing to the REST client, with or without a channel id.
C9_OtherUserIgnored ==
    [][\A user_id \in OtherUsers, session_id \in SessionIds, channel_id \in ChannelIds :
            raw_voice_state_update(user_id, session_id, channel_id) =>
                /\ sent' = <<>>
                /\ last'.raised = NoError
                /\ UNCHANGED <<local, ready, awaiting>>]_vars

\* an update was delivered and ignored on a player that holds a queue and
\* no ConnectionInfo
C9_Witness ==
    /\ last.op = "raw_voice_state_update"
    /\ last.raised = NoError
    /\ _voice_handlers = EmptyDict
    /\ queue = <<1, 2>>
    /\ _queue_repeat

\* C10: a voice-server update with no ConnectionInfo stored hands nothing to
\* the REST client and changes nothing; the ConnectionInfo appears only by
\* a voice-state update for the bot's own user with a channel id, so a
\* voice update is sent on a voice-server update only after such an update.
C10_ServerUpdateNeedsState ==
    [][/\ \A endpoint \in Endpoints, token \in Tokens :
            (raw_voice_server_update(endpoint, token)
                /\ GuildId \notin DOMAIN _voice_handlers) =>
                /\ sent' = <<>>
                /\ UNCHANGED <<local, ready, awaiting>>
       /\ (GuildId \notin DOMAIN _voice_handlers
                /\ GuildId \in DOMAIN _voice_handlers') =>
            \E session_id \in SessionIds, channel_id \in PresentChannels :
                raw_voice_state_update(BotUserId, session_id, channel_id)
       /\ (last'.op = "raw_voice_server_update" /\ sent' # <<>>) =>
            GuildId \in DOMAIN _voice_handlers]_vars

\* a voice-server update arrived before any ConnectionInfo was stored,
\* after other settings had been changed
C10_Witness ==
    /\ last.op = "raw_voice_server_update"
    /\ sent = <<>>
    /\ _voice_handlers = EmptyDict
    /\ _volume = 0

\* C11: a voice-server update with a ConnectionInfo stored hands over exactly
\* one update whose voice payload carries the supplied token, the supplied
\* endpoint (without its wss:// prefix) and the session id of the stored
\* ConnectionInfo.
C11_ServerUpdateUsesStoredSession ==
    [][\A endpoint \in Endpoints, token \in Tokens :
            (raw_voice_server_update(endpoint, token)
                /\ GuildId \in DOMAIN _voice_handlers) =>
                sent' = <<UpdatePlayer([voice |->
                            [token |-> token,
                             sessionId |-> _voice_handlers[GuildId].session_id,
                             endpoint |-> StripWss(endpoint)]])>>]_vars

\* C12: the player holds at most one ConnectionInfo, under its own guild id;
\* a voice-state update for the bot's own user with a channel id replaces it
\* by (guild id, session id, channel id) of that update, and nothing else
\* writes it.
C12_ConnectionInfoReplaced ==
    [][/\ DOMAIN _voice_handlers' \subseteq {GuildId}
       /\ \A user_id \in UserIds, session_id \in SessionIds, channel_id \in ChannelIds :
            raw_voice_state_update(user_id, session_id, channel_id) =>
                IF user_id = BotUserId /\ channel_id \in PresentChannels
                THEN /\ DOMAIN _voice_handlers' = {GuildId}
                     /\ _voice_handlers'[GuildId] =
                            [guild_id |-> GuildId, session_id |-> session_id,
                             channel_id |-> channel_id]
                ELSE _voice_handlers' = _voice_handlers
       /\ (_voice_handlers' # _voice_handlers) =>
            \E session_id \in SessionIds, channel_id \in PresentChannels :
                raw_voice_state_update(BotUserId, session_id, channel_id)]_vars

\* a second accepted update has replaced session id and channel id of the
\* first
C12_Witness ==
    /\ last.op = "raw_voice_state_update"
    /\ last.raised = NoError
    /\ GuildId \in DOMAIN _voice_handlers
    /\ _voice_handlers[GuildId].session_id = "s2"
    /\ _voice_handlers[GuildId].channel_id = 6
    /\ bot_channel = 6

\* how often track t occurs in q
Count(q, t) == Cardinality({i \in 1..Len(q) : q[i] = t})

\* q without its element at 0-based index k
Without(q, k) == [i \in 1..(Len(q) - 1) |-> IF i <= k THEN q[i] ELSE q[i + 1]]

\* C13: shuffle() on a non-empty queue keeps the element at index 0, the
\* length, and the multiset of the other elements (equal tracks included),
\* and returns the new queue; on an empty queue it returns an empty sequence
\* and changes nothing.
C13_ShuffleKeepsHead ==
    [][\A state \in BOOLEAN : (Ran("shuffle") /\ shuffle(state)) =>
            IF Len(queue) = 0
            THEN /\ last'.ret = <<>>
                 /\ UNCHANGED <<local, ready, awaiting>>
            ELSE /\ queue'[1] = queue[1]
                 /\ Len(queue') = Len(queue)
                 /\ \A t \in Tracks : Count(Tail(queue'), t) = Count(Tail(queue), t)
                 /\ last'.ret = queue']_vars

\* shuffle has run on a queue that holds one track twice
C13_Witness ==
    /\ last.op = "shuffle"
    /\ last.ret = queue
    /\ queue = <<1, 2, 1>>
    /\ _shuffle = <<TRUE>>

\* C14 as claimed: on a queue of length n >= 1, remove(p) removes the element
\* at p for 0 <= p < n and ends in a bounds error, queue unchanged, for every
\* other p, negative p included; on an empty queue it does nothing.
C14_RemoveAsClaimed ==
    [][\A p \in Positions : (Ran("remove") /\ remove(p)) =>
            IF Len(queue) = 0
            THEN UNCHANGED <<local, ready, awaiting>>
            ELSE IF 0 <= p /\ p < Len(queue)
            THEN last'.raised = NoError /\ queue' = Without(queue, p)
            ELSE last'.raised = IndexError /\ queue' = queue]_vars

\* C14 as amended: on a queue of length n >= 1, remove(p) removes the element
\* at p for 0 <= p < n and the element at n + p for -n <= p < 0, shortening
\* the queue by 1 and keeping the order of the others; for p >= n and for
\* p < -n it ends in a bounds error and leaves the queue unchanged; on an
\* empty queue it does nothing for every p.
C14_RemoveAmended ==
    [][\A p \in Positions : (Ran("remove") /\ remove(p)) =>
            IF Len(queue) = 0
            THEN UNCHANGED <<local, ready, awaiting>>
            ELSE IF 0 <= p /\ p < Len(queue)
            THEN last'.raised = NoError /\ queue' = Without(queue, p)
            ELSE IF 0 - Len(queue) <= p /\ p < 0
            THEN last'.raised = NoError /\ queue' = Without(queue, Len(queue) + p)
            ELSE last'.raised = IndexError /\ queue' = queue]_vars

\* remove has taken one of three queued tracks out
C14_Witness ==
    /\ last.op = "remove"
    /\ last.raised = NoError
    /\ last.ret = <<None>>
    /\ Len(queue) = 2

\* C15: index(p) returns none on an empty queue, the element at p for
\* 0 <= p < length, and none without raising for p = length and for
\* p > length; it never changes the queue.
C15_IndexBeyondEndIsNone ==
    [][\A p \in Positions : (Ran("index") /\ index(p)) =>
            /\ queue' = queue
            /\ IF Len(queue) = 0
               THEN last'.raised = NoError /\ last'.ret = <<None>>
               ELSE IF 0 <= p /\ p < Len(queue)
               THEN last'.raised = NoError /\ last'.ret = <<queue[p + 1]>>
               ELSE (p >= Len(queue)) =>
                        (last'.raised = NoError /\ last'.ret = <<None>>)]_vars

\* C16: queue_repeat(x) sets the queue-repeat flag to x and, for x = true,
\* leaves the track-repeat flag false; repeat(x) sets the track-repeat flag
\* to x and leaves the queue-repeat flag as it was; neither hands anything
\* to the REST client nor changes the queue or the volume.
C16_RepeatSetters ==
    [][/\ \A x \in BOOLEAN : queue_repeat(x) =>
            /\ _queue_repeat' = x
            /\ (x => _repeat' = FALSE)
            /\ sent' = <<>>
            /\ UNCHANGED <<queue, _volume>>
       /\ \A x \in BOOLEAN : repeat(x) =>
            /\ _repeat' = x
            /\ _queue_repeat' = _queue_repeat
            /\ sent' = <<>>
            /\ UNCHANGED <<queue, _volume>>]_vars

\* repeat(True) has run on a player whose queue-repeat flag was set
C16_Witness ==
    /\ last.op = "repeat"
    /\ _repeat
    /\ _queue_repeat
    /\ _volume = 1000

\* C17: with play calls only, on an initially empty queue and a remote
\* whose calls all succeed, once all plays
\* have completed the track of the latest play request handed to the REST
\* client is the track at the head of the queue.
C17_HeadIsNowPlaying ==
    (awaiting = <<>> /\ queue # <<>>) => played = EncodedTrack(queue[1])

\* C18: destroy() hands exactly one destroy_player for this guild and node
\* session to the REST client and leaves queue, volume, repeat flags and
\* ConnectionInfo as they were.
C18_DestroyKeepsLocalState ==
    [][destroy =>
            /\ sent' = <<[method |-> "destroy_player", session_id |-> NodeSessionId,
                         guild_id |-> GuildId]>>
            /\ last'.raised = NoError
            /\ UNCHANGED <<local, ready, awaiting>>]_vars

\* destroy has run on a player that holds a queue, settings and a
\* ConnectionInfo
C18_Witness ==
    /\ last.op = "destroy"
    /\ sent = <<DestroyPlayer>>
    /\ queue = <<1, 2>>
    /\ _volume = 1000
    /\ _queue_repeat
    /\ GuildId \in DOMAIN _voice_handlers

\* C19: while the latest voice-state update for the bot's own user is its
\* disconnect (no channel id), a voice-server update hands no voice update
\* to the REST client.
C19_NoVoiceUpdateAfterDisconnect ==
    [][\A endpoint \in Endpoints, token \in Tokens :
            (raw_voice_server_update(endpoint, token) /\ bot_channel = None) =>
                sent' = <<>>]_vars

\* C20: under overlapping play calls only, a play that starts on a non-empty
\* queue appends its track once; a play that starts on an empty queue is
\* suspended and appends its track once when its REST call returns; when
\* the REST call fails the error propagates and queue and requester are
\* left as they were.  No other step touches the queue.
C20_PlaysAppendOnce ==
    [][/\ \A track \in Tracks, req \in Requesters, start \in Starts :
            (Ran("play") /\ play(track, req, start)) =>
                IF Len(queue) = 0
                THEN /\ queue' = queue
                     /\ awaiting' = Append(awaiting, [track |-> track, requester |-> req])
                ELSE /\ queue' = Append(queue, track)
                     /\ awaiting' = awaiting
       /\ \A i \in 1..Len(awaiting) :
            (Ran("play_resume") /\ play_resume(i, NoError)) =>
                /\ queue' = Append(queue, awaiting[i].track)
                /\ Len(awaiting') = Len(awaiting) - 1
       /\ \A i \in 1..Len(awaiting) :
            (Ran("play_resume") /\ play_resume(i, TransportError)) =>
                /\ last'.raised = TransportError
                /\ queue' = queue
                /\ requester' = requester
                /\ Len(awaiting') = Len(awaiting) - 1
       /\ Len(queue') + Len(awaiting') >= Len(queue) + Len(awaiting)
                \/ last'.raised = TransportError]_vars

\* of two overlapping plays one failed and one succeeded: the queue holds
\* the one track
C20_Witness ==
    /\ last.op = "play_resume"
    /\ last.raised = TransportError
    /\ Len(queue) = 1
    /\ awaiting = <<>>
    /\ played # EncodedTrack(queue[1])

====
